---- MODULE Spec2Model ----
(***************************************************************************)
(* A model of app.py: the text extraction adapter (extract_text), the      *)
(* rule-based classifier and extractor (analyze_file_content), the rename  *)
(* rule engine (apply_rename_rule with its helper sanitize_filename) and   *)
(* the per-file orchestrator loop.                                         *)
(*                                                                         *)
(* A Python str is a sequence of characters.  An ASCII character is the    *)
(* one-character string; a non-ASCII character is a token naming it:       *)
(*   J_xxx  a kanji (U+4E00..U+9FA0, the first range of name_re_ja)        *)
(*   K_xxx  a katakana (U+30A1..U+30F4), K_choon the long-vowel mark       *)
(*   H_xxx  a hiragana (U+3042..U+3093)                                    *)
(*   P_ten, P_maru  the ideographic comma and full stop                    *)
(*   S_yen  the currency sign U+00A5                                       *)
(*   S_zsp  the ideographic space U+3000                                   *)
(***************************************************************************)
EXTENDS Integers, Sequences, FiniteSets, TLC

\* ---------------------------------------------------------------- characters

UpperSeq ==
  <<"A","B","C","D","E","F","G","H","I","J","K","L","M",
    "N","O","P","Q","R","S","T","U","V","W","X","Y","Z">>

LowerSeq ==
  <<"a","b","c","d","e","f","g","h","i","j","k","l","m",
    "n","o","p","q","r","s","t","u","v","w","x","y","z">>

Upper == {UpperSeq[k] : k \in 1..26}

Lower == {LowerSeq[k] : k \in 1..26}

Digit == {"0","1","2","3","4","5","6","7","8","9"}

Kanji ==
  {"J_sei","J_kyuu","J_sho","J_ryou","J_shuu","J_mei","J_sai","J_gou","J_kei",
   "J_kin","J_gaku","J_on","J_chuu","J_shou","J_roku","J_cho","J_gen","J_jo",
   "J_ron","J_cho2","J_sha","J_hatsu","J_hyou","J_nen","J_ken","J_kyuu2",
   "J_hou","J_koku","J_gi","J_jutsu","J_shi","J_ryou2","J_saku","J_sei2",
   "J_shitsu","J_hitsu","J_dai","J_gaku2","J_shitsu2","J_kabu","J_shiki",
   "J_kai","J_sha2","J_gatsu","J_nichi","J_en","J_ketsu","J_ka","J_kou",
   "J_moto","J_tai","J_ou","J_sho2","J_ri","J_sei3","J_kei2","J_mei2","J_fu",
   "J_ta","J_shou2","J_ji","J_ken2","J_ju","J_mon","J_ji2","J_ki","J_sui",
   "J_soku"}

Katakana ==
  {"K_ki","K_wa","K_do","K_re","K_po","K_to","K_fu","K_a","K_i","K_ru","K_ko",
   "K_n","K_sa","K_te","K_i2","K_gu","K_e","K_ra","K_shi","K_su","K_mo",
   "K_tsu","K_ku","K_so","K_u","K_e2","K_a2","K_se","K_ta"}

Hiragana ==
  {"H_ko","H_no","H_ha","H_ni","H_sa","H_re","H_ta","H_de","H_a","H_ri",
   "H_su","H_shi","H_te","H_i","H_ma","H_se","H_n","H_ga","H_na","H_ka",
   "H_ra","H_wo"}

\* str.isdigit and the regex class \d, on the characters of the model
IsDigit(c) == c \in Digit

\* str.isalnum: letters of any script and digits
Alnum == Upper \cup Lower \cup Digit \cup Kanji \cup Katakana \cup Hiragana
               \cup {"K_choon"}

IsAlnum(c) == c \in Alnum

\* the regex class \s and what str.strip() removes
Space == {" ", "\n", "\t", "S_zsp"}

IsSpace(c) == c \in Space

\* the character class of name_re_ja: kanji, katakana, the long-vowel mark,
\* hiragana
JaName == Kanji \cup Katakana \cup Hiragana \cup {"K_choon"}

\* the lower-case letter of every upper-case letter
LowerOf ==
  "A" :> "a" @@ "B" :> "b" @@ "C" :> "c" @@ "D" :> "d" @@ "E" :> "e" @@ "F"
  :> "f" @@ "G" :> "g" @@ "H" :> "h" @@ "I" :> "i" @@ "J" :> "j" @@ "K" :>
  "k" @@ "L" :> "l" @@ "M" :> "m" @@ "N" :> "n" @@ "O" :> "o" @@ "P" :> "p"
  @@ "Q" :> "q" @@ "R" :> "r" @@ "S" :> "s" @@ "T" :> "t" @@ "U" :> "u" @@
  "V" :> "v" @@ "W" :> "w" @@ "X" :> "x" @@ "Y" :> "y" @@ "Z" :> "z"

\* str.lower on one character
LowerChar(c) == IF c \in Upper THEN LowerOf[c] ELSE c

\* the upper-case letter of every lower-case letter
UpperOf ==
  "a" :> "A" @@ "b" :> "B" @@ "c" :> "C" @@ "d" :> "D" @@ "e" :> "E" @@ "f"
  :> "F" @@ "g" :> "G" @@ "h" :> "H" @@ "i" :> "I" @@ "j" :> "J" @@ "k" :>
  "K" @@ "l" :> "L" @@ "m" :> "M" @@ "n" :> "N" @@ "o" :> "O" @@ "p" :> "P"
  @@ "q" :> "Q" @@ "r" :> "R" @@ "s" :> "S" @@ "t" :> "T" @@ "u" :> "U" @@
  "v" :> "V" @@ "w" :> "W" @@ "x" :> "X" @@ "y" :> "Y" @@ "z" :> "Z"

\* str.upper on one character
UpperChar(c) == IF c \in Lower THEN UpperOf[c] ELSE c

\* ---------------------------------------------------------------- str helpers

\* str.lower
lower(s) == SubSeq([k \in 1..Len(s) |-> LowerChar(s[k])], 1, Len(s))

\* str.upper
upper(s) == SubSeq([k \in 1..Len(s) |-> UpperChar(s[k])], 1, Len(s))

\* s[:n] for n >= 0
Prefix(s, n) == SubSeq(s, 1, IF n < Len(s) THEN n ELSE Len(s))

\* s[p:] for a 1-based position p
From(s, p) == SubSeq(s, p, Len(s))

\* whether kw occurs in s at position p
StartsAt(s, p, kw) ==
  /\ p >= 1
  /\ p + Len(kw) - 1 <= Len(s)
  /\ \A k \in 1..Len(kw) : s[p + k - 1] = kw[k]

\* kw in s
Contains(s, kw) == \E p \in 1..(Len(s) - Len(kw) + 1) : StartsAt(s, p, kw)

\* any(kw in s for kw in kws), for non-empty keywords: a keyword can only
\* start where its first character stands
ContainsAny(s, kws) ==
  LET first == {kw[1] : kw \in kws}
  IN \E p \in 1..Len(s) :
       s[p] \in first /\ \E kw \in kws : StartsAt(s, p, kw)

\* the number of characters of s from position p on that are in Class
RECURSIVE RunLen(_, _, _)
RunLen(s, p, Class) ==
  IF p <= Len(s) /\ s[p] \in Class THEN 1 + RunLen(s, p + 1, Class) ELSE 0

\* ''.join(c for c in s if c in Class)
RECURSIVE Filter(_, _)
Filter(s, Class) ==
  IF s = <<>> THEN <<>>
  ELSE (IF Head(s) \in Class THEN <<Head(s)>> ELSE <<>>) \o Filter(Tail(s), Class)

\* s without its leading characters of Class
RECURSIVE LStrip(_, _)
LStrip(s, Class) ==
  IF s # <<>> /\ Head(s) \in Class THEN LStrip(Tail(s), Class) ELSE s

\* s without its trailing characters of Class
RECURSIVE RStrip(_, _)
RStrip(s, Class) ==
  IF s # <<>> /\ s[Len(s)] \in Class
  THEN RStrip(SubSeq(s, 1, Len(s) - 1), Class)
  ELSE s

\* str.strip(): leading and trailing whitespace removed
strip(s) == RStrip(LStrip(s, Space), Space)

\* str.strip('_')
strip_underscore(s) == RStrip(LStrip(s, {"_"}), {"_"})

\* str.split(sep) for a one-character separator
RECURSIVE split(_, _)
split(s, sep) ==
  LET hit == {p \in 1..Len(s) : s[p] = sep} IN
  IF hit = {} THEN <<s>>
  ELSE LET p == CHOOSE q \in hit : \A r \in hit : q <= r IN
       <<SubSeq(s, 1, p - 1)>> \o split(From(s, p + 1), sep)

\* sep.join(parts)
RECURSIVE join(_, _)
join(sep, parts) ==
  IF parts = <<>> THEN <<>>
  ELSE IF Len(parts) = 1 THEN parts[1]
  ELSE parts[1] \o sep \o join(sep, Tail(parts))

\* str.replace(old, new) for a one-character old
RECURSIVE replace(_, _, _)
replace(s, old, new) ==
  IF s = <<>> THEN <<>>
  ELSE (IF Head(s) = old THEN new ELSE <<Head(s)>>) \o replace(Tail(s), old, new)

\* the set of characters of s
Range(s) == {s[k] : k \in 1..Len(s)}

\* the characters c repeated n times
Rep(c, n) == SubSeq([k \in 1..n |-> c], 1, n)

\* the character at position p, or "" (in no class) past the end
At(s, p) == IF p >= 1 /\ p <= Len(s) THEN s[p] ELSE ""

Max(a, b) == IF a >= b THEN a ELSE b

\* the least element of a non-empty set of positions
Least(S) == CHOOSE q \in S : \A r \in S : q <= r

\* ---------------------------------------------------------------- os.path

\* os.path.splitext (posixpath): the extension starts at the last dot after
\* the last "/", unless only dots precede it in the file name
splitext(p) ==
  LET seps     == {k \in 1..Len(p) : p[k] = "/"}
      dots     == {k \in 1..Len(p) : p[k] = "."}
      sepIndex == IF seps = {} THEN 0 ELSE CHOOSE k \in seps : \A r \in seps : r <= k
      dotIndex == IF dots = {} THEN 0 ELSE CHOOSE k \in dots : \A r \in dots : r <= k
  IN IF dotIndex > sepIndex
        /\ \E k \in (sepIndex + 1)..(dotIndex - 1) : p[k] # "."
     THEN <<SubSeq(p, 1, dotIndex - 1), From(p, dotIndex)>>
     ELSE <<p, <<>>>>

\* ---------------------------------------------------------------- regexes

DateSep1 == {"-", "/", "J_nen"}

DateSep2 == {"-", "/", "J_gatsu"}

\* the length of the match of  \d{4}[-/nen]\d{1,2}[-/gatsu]\d{1,2}nichi?
\* that starts at position p of s, or 0 when there is none.  \d{1,2} is
\* greedy; giving a digit back never helps, the next item being no digit.
DateMatchLen(s, p) ==
  LET m  == IF At(s, p + 6) \in Digit THEN 2 ELSE 1
      q  == p + 5 + m
      n  == IF At(s, q + 2) \in Digit THEN 2 ELSE 1
      e  == IF At(s, q + 1 + n) = "J_nichi" THEN 1 ELSE 0
  IN IF /\ \A k \in 0..3 : At(s, p + k) \in Digit
        /\ At(s, p + 4) \in DateSep1
        /\ At(s, p + 5) \in Digit
        /\ At(s, q) \in DateSep2
        /\ At(s, q + 1) \in Digit
     THEN 6 + m + n + e
     ELSE 0

\* re.search for a pattern whose match at position p has length lens[p]
\* (0: no match there): the leftmost match as <<start, length>>, <<0, 0>>
\* for None
leftmost(lens) ==
  IF \A p \in 1..Len(lens) : lens[p] = 0 THEN <<0, 0>>
  ELSE LET p == Least({q \in 1..Len(lens) : lens[q] > 0}) IN <<p, lens[p]>>

\* re.search(date pattern, s)
date_search(s) ==
  leftmost(SubSeq([p \in 1..Len(s) |-> DateMatchLen(s, p)], 1, Len(s)))

\* the currency signs of the amount pattern: yen, full-width yen, dollar,
\* euro, pound
Currency == {"S_yen", "S_yen_fw", "$", "S_euro", "S_pound"}

DigitComma == Digit \cup {","}

\* the length of the match of
\*   [currency]\s*[\d,]+\.?\d*  |  [\d,]+\s*(en|yen)
\* that starts at position p of s, or 0.  The first alternative is tried
\* first; every repetition is greedy and followed by an item of another
\* class, so no backtracking changes the match.
AmountMatchLen(s, p) ==
  LET w1 == RunLen(s, p + 1, Space)
      g1 == RunLen(s, p + 1 + w1, DigitComma)
      a1 == p + 1 + w1 + g1
      f1 == IF At(s, a1) = "." THEN 1 + RunLen(s, a1 + 1, Digit) ELSE 0
      g2 == RunLen(s, p, DigitComma)
      w2 == RunLen(s, p + g2, Space)
      a2 == p + g2 + w2
  IN IF At(s, p) \in Currency /\ g1 >= 1 THEN 1 + w1 + g1 + f1
     ELSE IF g2 >= 1 /\ At(s, a2) = "J_en" THEN g2 + w2 + 1
     ELSE IF g2 >= 1 /\ StartsAt(s, a2, <<"y","e","n">>) THEN g2 + w2 + 3
     ELSE 0

\* re.search(amount pattern, s)
amount_search(s) ==
  leftmost(SubSeq([p \in 1..Len(s) |-> AmountMatchLen(s, p)], 1, Len(s)))

\* m.group(0) of a match <<start, length>>
group(s, m) == SubSeq(s, m[1], m[1] + m[2] - 1)

\* whether  (?:\s*[ja]{1,5})*$  matches s from position p to the end
RECURSIVE NameJaRest(_, _)
NameJaRest(s, p) ==
  IF p > Len(s) THEN TRUE
  ELSE LET w == RunLen(s, p, Space)
           r == RunLen(s, p + w, JaName)
       IN r >= 1 /\ NameJaRest(s, p + w + r)

\* re.match(name_re_ja + "$", line): two to five name characters, then
\* groups of optional whitespace and one to five name characters, to the end
name_re_ja(line) ==
  /\ At(line, 1) \in JaName
  /\ At(line, 2) \in JaName
  /\ NameJaRest(line, 3)

\* whether  (?:\s[A-Z][a-z\.]*)*$  matches s from position p to the end
RECURSIVE NameEnRest(_, _)
NameEnRest(s, p) ==
  IF p > Len(s) THEN TRUE
  ELSE /\ At(s, p) \in Space
       /\ At(s, p + 1) \in Upper
       /\ NameEnRest(s, p + 2 + RunLen(s, p + 2, Lower \cup {"."}))

\* the English name pattern with the label "Author: " let through
name_re_en_label(line) ==
  LET label == <<"A","u","t","h","o","r",":"," ">>
      s     == IF Len(line) >= 8 /\ Prefix(line, 8) = label
               THEN From(line, 9) ELSE line
  IN /\ At(s, 1) \in Upper
     /\ RunLen(s, 2, Lower) >= 1
     /\ NameEnRest(s, 2 + RunLen(s, 2, Lower))

\* re.match(name_re_en + "$", line): a capitalised word, then words of a
\* capital and lower-case letters or dots, one whitespace before each
name_re_en(line) ==
  /\ At(line, 1) \in Upper
  /\ RunLen(line, 2, Lower) >= 1
  /\ NameEnRest(line, 2 + RunLen(line, 2, Lower))

\* a pattern of literal alternatives searched with re.IGNORECASE
SearchIgnoreCase(s, kws) == ContainsAny(lower(s), {lower(kw) : kw \in kws})

\* re.search(org_keywords_re, line, re.IGNORECASE)
org_keywords ==
  { <<"J_dai","J_gaku2">>, <<"J_ken","J_kyuu2","J_shitsu2">>,
    <<"J_kabu","J_shiki","J_kai","J_sha2">>,
    <<"S","c","h","o","o","l"," ","o","f">>,
    <<"U","n","i","v","e","r","s","i","t","y">>, <<"D","e","p","t">> }

org_keywords_re(line) == SearchIgnoreCase(line, org_keywords)

\* Vol\.\s*\d+ with re.IGNORECASE, anywhere in s
VolMatch(s) ==
  \E p \in 1..Len(s) :
    /\ StartsAt(lower(s), p, <<"v","o","l",".">>)
    /\ At(s, p + 4 + RunLen(s, p + 4, Space)) \in Digit

Shouroku == <<"J_shou","J_roku">>

Abstract == <<"A","b","s","t","r","a","c","t">>

\* re.search(r"Vol\.\s*\d+|Journal|ISSN|doi|SCU", s, re.IGNORECASE)
journal_re(s) ==
  \/ VolMatch(s)
  \/ SearchIgnoreCase(s, { <<"J","o","u","r","n","a","l">>, <<"I","S","S","N">>,
                           <<"d","o","i">>, <<"S","C","U">> })

\* re.search(r"Vol\.\s*\d+|Journal|ISSN|doi|SCU|shouroku|Abstract", s,
\*           re.IGNORECASE)
noise_re(s) == journal_re(s) \/ SearchIgnoreCase(s, {Shouroku, Abstract})

\* re.sub(r"^(shouroku|Abstract|Keywords):[\s\-\s]*", "", s,
\*        flags=re.IGNORECASE)
strip_label(s) ==
  LET labels == {Shouroku, Abstract, <<"K","e","y","w","o","r","d","s">>}
      hit    == {l \in labels : StartsAt(lower(s), 1, lower(l) \o <<":">>)}
  IN IF hit = {} THEN s
     ELSE LET n == Len(CHOOSE l \in hit : TRUE) + 1
          IN From(s, n + 1 + RunLen(s, n + 1, Space \cup {"-"}))

\* ---------------------------------------------------------------- data model

\* the values of Category, in the order of the Literal: the literals for
\* "paper" (an authored document), "invoice / receipt", "other", "unknown"
AuthoredDocument == "AuthoredDocument"

Invoice == "Invoice"

Other == "Other"

Unknown == "Unknown"

\* Python's None where a str is optional: a sequence no str can equal
NoneStr == <<"None">>

\* Python's None for extracted_data
NoneData == [cls |-> "None"]

AuthorData(author, title) ==
  [cls |-> "AuthorData", author |-> author, title |-> title]

InvoiceData(invoice_date, invoice_amount, invoice_issuer, invoice_subject) ==
  [cls |-> "InvoiceData", invoice_date |-> invoice_date,
   invoice_amount |-> invoice_amount, invoice_issuer |-> invoice_issuer,
   invoice_subject |-> invoice_subject]

OtherData(title) == [cls |-> "OtherData", title |-> title]

\* reasoning is a message for the reader; the model keeps which message it
\* is and the scores it cites
AICoreResponse(category, extracted_data, reasoning, transcript) ==
  [category |-> category, extracted_data |-> extracted_data,
   reasoning |-> reasoning, transcript |-> transcript]

\* ---------------------------------------------------------------- classifier

invoice_keywords ==
  { <<"J_sei","J_kyuu","J_sho">>, <<"J_ryou","J_shuu","J_sho">>,
    <<"J_mei","J_sai">>, <<"i","n","v","o","i","c","e">>,
    <<"r","e","c","e","i","p","t">>, <<"J_gou","J_kei","J_kin","J_gaku">>,
    <<"J_on","J_chuu">> }

\* "Report" is kept as written: it is searched in the lower-cased text
author_doc_keywords ==
  { <<"a","b","s","t","r","a","c","t">>,
    <<"i","n","t","r","o","d","u","c","t","i","o","n">>,
    <<"a","u","t","h","o","r">>, Shouroku, <<"J_cho","J_gen">>,
    <<"J_jo","J_ron">>, <<"J_cho2","J_sha">>, <<"J_hatsu","J_hyou","J_nen">>,
    <<"J_ken","J_kyuu2","J_hou","J_koku">>,
    <<"K_ki","K_choon","K_wa","K_choon","K_do">>,
    <<"K_re","K_po","K_choon","K_to">>, <<"R","e","p","o","r","t">>,
    <<"J_gi","J_jutsu","J_shi","J_ryou2">>, <<"J_saku","J_sei2","J_sha">>,
    <<"J_shitsu","J_hitsu","J_sha">> }

\* the transcript and the extracted data of the ASR mock
mock_transcript ==
  <<"K_mo","K_tsu","K_ku","J_mon","J_ji2","J_ki","H_ko","H_shi",":"," ",
    "2","0","2","3","J_nen","1","0","J_gatsu","5","J_nichi","P_ten",
    "J_ta","J_chuu","J_shou2","J_ji","H_ka","H_ra","1","5","0","0","0","J_en",
    "H_no","J_sei","J_kyuu","J_sho","H_wo","J_ju","J_ryou","H_shi","H_ma",
    "H_shi","H_ta","P_maru","J_ken2","J_mei2","H_ha","K_so","K_fu","K_to",
    "K_u","K_e2","K_a2","K_ra","K_i","K_se","K_n","K_su","H_de","H_su",
    "P_maru">>

mock_invoice ==
  InvoiceData(<<"2","0","2","3","-","1","0","-","0","5">>,
              <<"1","5","0","0","0","J_en">>,
              <<"J_ta","J_chuu","J_shou2","J_ji">>,
              <<"K_so","K_fu","K_to","K_u","K_e2","K_a2","K_ra","K_i","K_se",
                "K_n","K_su">>)

\* the placeholder for an author that was not detected
author_unknown == <<"J_cho2","J_sha","J_mei2","J_fu","J_mei">>

\* the fixed invoice_issuer
issuer_unknown == <<"J_fu","J_mei","H_na","J_hatsu","J_kou","J_moto">>

date_default == <<"Y","Y","Y","Y","M","M","D","D">>

\* [line.strip() for line in lines if line.strip()]
RECURSIVE stripped_lines(_, _)
stripped_lines(raw, k) ==
  IF k > Len(raw) THEN <<>>
  ELSE (IF \A p \in 1..Len(raw[k]) : raw[k][p] \in Space
        THEN <<>> ELSE <<strip(raw[k])>>)
       \o stripped_lines(raw, k + 1)

\* text_lines: the stripped non-empty lines of the text
text_lines(text_content) == stripped_lines(split(text_content, "\n"), 1)

\* first_10_lines
first_10_lines(lines) == strip(join(<<"\n">>, Prefix(lines, 10)))

\* the title candidate a confirmed author line at index k leaves: the line
\* before it when that is long enough and no journal or abstract line
title_before(header_lines, k, best_title_candidate) ==
  IF /\ k > 1
     /\ Len(header_lines[k - 1]) > 15
     /\ ~journal_re(header_lines[k - 1])
     /\ ~Contains(header_lines[k - 1], Shouroku)
     /\ ~Contains(header_lines[k - 1], Abstract)
  THEN header_lines[k - 1]
  ELSE best_title_candidate

\* whether the line at index k is a name and the next line names an
\* organisation
confirmed_author(header_lines, k) ==
  /\ name_re_ja(header_lines[k]) \/ name_re_en(header_lines[k])
  /\ k + 1 <= Len(header_lines)
  /\ org_keywords_re(header_lines[k + 1])

\* whether the line at index k replaces the provisional title
longer_title(header_lines, k, best_title_candidate) ==
  /\ ~(name_re_ja(header_lines[k]) \/ name_re_en(header_lines[k]))
  /\ Len(header_lines[k]) > 20
  /\ ~noise_re(header_lines[k])
  /\ Len(header_lines[k]) > Len(best_title_candidate)

\* the loop over header_lines from index k (1-based) on, with the title
\* candidate found so far: <<best_title_candidate, best_author_candidate>>.
\* A confirmed author line ends the loop (break).  The lines are stripped
\* already, so prev_line and the author's strip() change nothing.
RECURSIVE scan_header(_, _, _)
scan_header(header_lines, k, best_title_candidate) ==
  IF k > Len(header_lines) THEN <<best_title_candidate, NoneStr>>
  ELSE IF confirmed_author(header_lines, k)
  THEN <<title_before(header_lines, k, best_title_candidate),
         header_lines[k]>>
  ELSE IF longer_title(header_lines, k, best_title_candidate)
  THEN scan_header(header_lines, k + 1, header_lines[k])
  ELSE scan_header(header_lines, k + 1, best_title_candidate)

\* score_invoice: +5 for a keyword in the text, +5 for a date and +5 for an
\* amount in the first lines
invoice_score(lower_text, date_match, amount_match) ==
  (IF ContainsAny(lower_text, invoice_keywords) THEN 5 ELSE 0)
  + (IF date_match[1] > 0 THEN 5 ELSE 0)
  + (IF amount_match[1] > 0 THEN 5 ELSE 0)

\* the author score with the 10 of a confirmed author added to the keyword's 5
author_doc_score_sum(lower_text, best_author_candidate) ==
  (IF ContainsAny(lower_text, author_doc_keywords) THEN 5 ELSE 0)
  + (IF best_author_candidate # NoneStr /\ best_author_candidate # <<>>
     THEN 10 ELSE 0)

\* score_author_doc: +5 for a keyword, at least 10 with a confirmed author
author_doc_score(lower_text, best_author_candidate) ==
  IF best_author_candidate # NoneStr /\ best_author_candidate # <<>>
  THEN Max(IF ContainsAny(lower_text, author_doc_keywords) THEN 5 ELSE 0, 10)
  ELSE IF ContainsAny(lower_text, author_doc_keywords) THEN 5 ELSE 0

\* detected_author: the author candidate without whitespace
detected_author(best_author_candidate) ==
  IF best_author_candidate # NoneStr /\ best_author_candidate # <<>>
  THEN Filter(best_author_candidate, Range(best_author_candidate) \ Space)
  ELSE NoneStr

\* the title of an authored document: the candidate, else the base name;
\* the base name too when the title is short or an abstract label; a label
\* at its start removed
extracted_title(best_title_candidate, base_name) ==
  IF \/ best_title_candidate = <<>>
     \/ Len(best_title_candidate) < 15
     \/ Contains(lower(best_title_candidate), Shouroku)
     \/ Contains(lower(best_title_candidate), lower(Abstract))
  THEN strip_label(base_name)
  ELSE strip_label(best_title_candidate)

\* invoice_date: the matched date with the year and month marks as dashes
\* and the day mark removed, "YYYYMMDD" without a match
invoice_date(first_lines, date_match) ==
  IF date_match[1] > 0
  THEN replace(replace(replace(group(first_lines, date_match),
                               "J_nen", <<"-">>), "J_gatsu", <<"-">>),
               "J_nichi", <<>>)
  ELSE date_default

\* amount_extracted: the matched amount, "0" without a match
amount_extracted(first_lines, amount_match) ==
  IF amount_match[1] > 0 THEN group(first_lines, amount_match) ELSE <<"0">>

\* the authored-document condition with a tie given to the authored document
is_author_doc_tie(score_author_doc, score_invoice) ==
  score_author_doc >= 10 /\ score_author_doc >= score_invoice

\* the condition of the authored-document branch
is_author_doc(score_author_doc, score_invoice) ==
  score_author_doc >= 10 /\ score_author_doc > score_invoice

\* the condition of the invoice branch, tried after the authored-document one
is_invoice(score_invoice, score_author_doc) ==
  score_invoice >= 10 /\ score_invoice >= score_author_doc

\* the response of the authored-document branch
author_doc_response(author, best_title_candidate, name, score_author_doc) ==
  AICoreResponse(
    AuthoredDocument,
    AuthorData(IF author # NoneStr /\ author # <<>>
               THEN author ELSE author_unknown,
               extracted_title(best_title_candidate, splitext(name)[1])),
    <<"author_doc", score_author_doc>>, NoneStr)

\* the response of the invoice branch
invoice_response(first_lines, date_match, amount_match, name, score_invoice, score_author_doc) ==
  AICoreResponse(
    Invoice,
    InvoiceData(invoice_date(first_lines, date_match),
                amount_extracted(first_lines, amount_match),
                issuer_unknown, name),
    <<"invoice", score_invoice, score_author_doc>>, NoneStr)

\* the "other" response without its data
other_response_no_data(name, score_author_doc, score_invoice) ==
  AICoreResponse(Other, NoneData,
                 <<"other", score_author_doc, score_invoice>>, NoneStr)

\* the "other" response with the title cut to 30 characters already
other_response_30(name, score_author_doc, score_invoice) ==
  AICoreResponse(Other, OtherData(Prefix(splitext(name)[1], 30)),
                 <<"other", score_author_doc, score_invoice>>, NoneStr)

\* the response for a text that matches no pattern: the title is the base
\* name of the file
other_response(name, score_author_doc, score_invoice) ==
  AICoreResponse(Other, OtherData(splitext(name)[1]),
                 <<"other", score_author_doc, score_invoice>>, NoneStr)

\* the test for content without the strip()
has_content_raw(text_content) == text_content # <<>>

\* text_content.strip(): whether the text has anything but whitespace
has_content(text_content) == strip(text_content) # <<>>

\* the response for an empty text
empty_response == AICoreResponse(Unknown, NoneData, <<"empty">>, NoneStr)

\* the final decision, from the locals of the scoring
decide(text_content, name, first_lines, date_match, amount_match, score_invoice, score_author_doc, best_title_candidate, author) ==
  [ score_invoice |-> score_invoice,
    score_author_doc |-> score_author_doc,
    best_title_candidate |-> best_title_candidate,
    detected_author |-> author,
    response |->
      IF is_author_doc(score_author_doc, score_invoice)
      THEN author_doc_response(author, best_title_candidate, name,
                               score_author_doc)
      ELSE IF is_invoice(score_invoice, score_author_doc)
      THEN invoice_response(first_lines, date_match, amount_match, name,
                            score_invoice, score_author_doc)
      ELSE IF has_content(text_content)
      THEN other_response(name, score_author_doc, score_invoice)
      ELSE empty_response ]

\* the scoring of a document text, then the decision
score_matches(text_content, name, lower_text, first_lines, date_match, amount_match, scan) ==
  decide(text_content, name, first_lines, date_match, amount_match,
         invoice_score(lower_text, date_match, amount_match),
         author_doc_score(lower_text, scan[2]),
         scan[1], detected_author(scan[2]))

score_lines(text_content, name, lines, first_lines) ==
  score_matches(text_content, name, lower(text_content), first_lines,
                date_search(first_lines), amount_search(first_lines),
                scan_header(Prefix(lines, 10), 1, <<>>))

score_text(text_content, name, lines) ==
  score_lines(text_content, name, lines, first_10_lines(lines))

\* the response for an audio file: the ASR mock
asr_response ==
  [ score_invoice |-> 0, score_author_doc |-> 0,
    best_title_candidate |-> <<>>, detected_author |-> NoneStr,
    response |-> AICoreResponse(Invoice, mock_invoice, <<"asr">>,
                                mock_transcript) ]

\* analyze_file_content without the branch for audio
analyze_file_content_no_asr(text_content, name, is_asr) ==
  score_text(text_content, name, text_lines(text_content))

\* analyze_file_content: the response, with the locals of the scoring
analyze_file_content(text_content, name, is_asr) ==
  IF is_asr THEN asr_response
  ELSE score_text(text_content, name, text_lines(text_content))

\* ---------------------------------------------------------------- rename

\* sanitize_filename without the filter of the characters
sanitize_filename_unfiltered(name) == replace(name, " ", <<"_">>)

\* sanitize_filename: spaces become underscores, then only alphanumerics
\* and the characters . _ - are kept
sanitize_filename(name) ==
  Filter(replace(name, " ", <<"_">>), Alnum \cup {".", "_", "-"})

\* ai_response.extracted_data.model_dump() if ai_response.extracted_data
\* else {}: the fields of the data, none for None
model_dump(extracted_data) ==
  IF extracted_data = NoneData THEN [cls |-> "dict"] ELSE extracted_data

\* data.get(key, default)
get(data, key, default) == IF key \in DOMAIN data THEN data[key] ELSE default

title_default == <<"K_ta","K_i","K_to","K_ru","J_fu","J_mei">>

issuer_default == <<"J_hatsu","J_kou","J_moto","J_fu","J_mei">>

subject_default == <<"J_ken2","J_mei2","H_na","H_shi">>

other_title_default == <<"A","I","J_sui","J_soku","K_ta","K_i","K_to","K_ru">>

\* the authored-document branch with the separator left out of the budget
author_branch_50(data) ==
  LET authors       == get(data, "author", author_unknown)
      title         == get(data, "title", title_default)
      authors_short == IF Len(authors) > 15 THEN Prefix(authors, 15) ELSE authors
      title_short   == Prefix(title, Max(0, 50 - Len(authors_short)))
  IN [authors_short |-> authors_short, title_short |-> title_short,
      new_name_raw  |->
        strip_underscore(authors_short \o <<"_">> \o title_short)]

\* the locals of the authored-document branch of apply_rename_rule
author_branch(data) ==
  LET authors       == get(data, "author", author_unknown)
      title         == get(data, "title", title_default)
      authors_short == IF Len(authors) > 15 THEN Prefix(authors, 15) ELSE authors
      max_total_len == 50 - 1
      max_title_len == max_total_len - Len(authors_short)
      title_short   == Prefix(title, Max(0, max_title_len))
  IN [authors_short |-> authors_short, title_short |-> title_short,
      new_name_raw  |->
        strip_underscore(authors_short \o <<"_">> \o title_short)]

\* the locals of the invoice branch of apply_rename_rule
invoice_branch(data) ==
  LET date_str_raw == get(data, "invoice_date", date_default)
      date_str     == Prefix(Filter(date_str_raw, Digit), 8)
      issuer       == Prefix(get(data, "invoice_issuer", issuer_default), 15)
      amount_raw   == get(data, "invoice_amount", <<"0">>)
      digits       == Filter(amount_raw, Digit)
      amount       == IF digits # <<>> THEN digits ELSE <<"0">>
      subject      == Prefix(get(data, "invoice_subject", subject_default), 15)
  IN [new_name_raw |->
        date_str \o <<"_">> \o issuer \o <<"_">> \o amount \o <<"_">> \o subject]

\* the locals of the "other" branch of apply_rename_rule
other_branch(data) ==
  [new_name_raw |-> Prefix(get(data, "title", other_title_default), 30)]

\* the locals of the branch apply_rename_rule takes
rename_locals(category, data) ==
  IF category = AuthoredDocument
  THEN [branch |-> category] @@ author_branch(data)
  ELSE IF category = Invoice
  THEN [branch |-> category, authors_short |-> <<>>, title_short |-> <<>>]
       @@ invoice_branch(data)
  ELSE IF category = Other
  THEN [branch |-> category, authors_short |-> <<>>, title_short |-> <<>>]
       @@ other_branch(data)
  ELSE [branch |-> IF category = Unknown THEN category ELSE "else",
        authors_short |-> <<>>, title_short |-> <<>>, new_name_raw |-> <<>>]

\* the return value with the extension lost in the "other" branch
renamed_as_no_ext(locals, original_name) ==
  IF locals.branch \in {AuthoredDocument, Invoice}
  THEN sanitize_filename(locals.new_name_raw) \o splitext(original_name)[2]
  ELSE IF locals.branch = Other
  THEN sanitize_filename(locals.new_name_raw)
  ELSE original_name

\* what apply_rename_rule returns in the branch with the locals given
renamed_as(locals, original_name) ==
  IF locals.branch \in {AuthoredDocument, Invoice, Other}
  THEN sanitize_filename(locals.new_name_raw) \o splitext(original_name)[2]
  ELSE original_name

\* apply_rename_rule
apply_rename_rule(ai_response, original_name) ==
  renamed_as(rename_locals(ai_response.category,
                           model_dump(ai_response.extracted_data)),
             original_name)

\* ---------------------------------------------------------------- extraction

supported_extensions ==
  { <<"p","d","f">>, <<"d","o","c","x">>, <<"x","l","s","x">>,
    <<"p","p","t","x">>, <<"c","s","v">>, <<"m","p","3">>, <<"w","a","v">>,
    <<"m","4","a">> }

audio_extensions == { <<"m","p","3">>, <<"w","a","v">>, <<"m","4","a">> }

\* the text substituted for a PDF without extractable text
mock_ocr_text ==
  <<"O","C","R","J_ketsu","J_ka",":"," ","H_ko","H_no","K_fu","K_a","K_i",
    "K_ru","H_ha","2","0","2","4","J_nen","4","J_gatsu","1","J_nichi","H_ni",
    "J_hatsu","J_kou","H_sa","H_re","H_ta","J_ryou","J_shuu","J_sho","H_de",
    "H_a","H_ri","P_ten","J_kin","J_gaku","H_ha","2","5",",","0","0","0",
    "J_en","H_de","H_su","P_maru","J_hatsu","J_kou","J_moto","H_ha","A","B",
    "C","K_ko","K_n","K_sa","K_ru","K_te","K_i2","K_n","K_gu","H_de","H_su",
    "P_maru">>

\* "... is not supported": the marker of the unsupported-format message
not_supported == <<"J_tai","J_ou","H_shi","H_te","H_i","H_ma","H_se","H_n">>

\* "error": the marker of the extraction-failure messages
error_marker == <<"K_e","K_ra","K_choon">>

\* f"file format '{file_ext}' is not supported."
unsupported_message(file_ext) ==
  <<"K_fu","K_a","K_i","K_ru","J_kei2","J_shiki"," ","'">> \o file_ext
  \o <<"'"," ","H_ha">> \o not_supported \o <<"P_maru">>

\* f"an error occurred while processing {FORMAT}: {e}"
error_message(format, e) ==
  format \o <<"J_sho2","J_ri","J_chuu","H_ni">> \o error_marker
  \o <<"H_ga","J_hatsu","J_sei3","H_shi","H_ma","H_shi","H_ta",":"," ">> \o e

\* str(n) for 0 <= n < 100
str_int(n) ==
  LET d(k) == <<"0","1","2","3","4","5","6","7","8","9">>[k + 1]
  IN IF n < 10 THEN <<d(n)>> ELSE <<d(n \div 10), d(n % 10)>>

\* An uploaded file is [name, units, error]: its name, what its parser reads
\* (the page texts of a PDF, the paragraphs of a DOCX, the one-cell rows of
\* the single sheet "Sheet1" of an XLSX, the one-shape slides of a PPTX, the
\* one-field rows of a CSV) and the message of the exception the parser
\* raises, NoneStr when it raises none.

\* text_content += page.extract_text() or "" for every page
RECURSIVE pdf_text(_)
pdf_text(pages) ==
  IF pages = <<>> THEN <<>> ELSE Head(pages) \o pdf_text(Tail(pages))

\* text_content += paragraph.text + '\n' (DOCX), ', '.join(row) + '\n' for
\* rows of one cell (XLSX, CSV)
RECURSIVE lines_text(_)
lines_text(rows) ==
  IF rows = <<>> THEN <<>>
  ELSE Head(rows) \o <<"\n">> \o lines_text(Tail(rows))

sheet_header ==
  <<"\n","-","-","-"," ","K_shi","K_choon","K_to",":"," ","S","h","e","e","t",
    "1"," ","-","-","-","\n">>

\* the slides from number k on: the slide header, then the shape's text
RECURSIVE pptx_text(_, _)
pptx_text(slides, k) ==
  IF k > Len(slides) THEN <<>>
  ELSE <<"\n","-","-","-"," ","K_su","K_ra","K_i","K_do"," ">> \o str_int(k)
       \o <<" ","-","-","-","\n">> \o slides[k] \o <<"\n">>
       \o pptx_text(slides, k + 1)

\* uploaded_file.name.split('.')[-1].lower()
file_ext(name) ==
  LET parts == split(name, ".") IN lower(parts[Len(parts)])

\* extract_text: <<text_content, is_asr>>
extract_text(uploaded_file) ==
  LET ext    == file_ext(uploaded_file.name)
      units  == uploaded_file.units
      failed == uploaded_file.error # NoneStr
      pdf    == pdf_text(units)
  IN IF ext \notin supported_extensions
     THEN <<unsupported_message(ext), FALSE>>
     ELSE IF ext \in audio_extensions
     THEN <<uploaded_file.name, TRUE>>
     ELSE IF failed
     THEN <<error_message(upper(ext), uploaded_file.error), FALSE>>
     ELSE IF ext = <<"p","d","f">>
     THEN <<IF strip(pdf) = <<>> THEN mock_ocr_text ELSE pdf, FALSE>>
     ELSE IF ext = <<"d","o","c","x">>
     THEN <<lines_text(units), FALSE>>
     ELSE IF ext = <<"x","l","s","x">>
     THEN <<sheet_header \o lines_text(units), FALSE>>
     ELSE IF ext = <<"p","p","t","x">>
     THEN <<pptx_text(units, 1), FALSE>>
     ELSE <<lines_text(units), FALSE>>

\* ---------------------------------------------------------------- inputs

\* the sequences over S of length at most n
SeqsUpTo(S, n) == UNION {[1..k -> S] : k \in 0..n}

\* the lines the analysed texts are made of
L_title ==
  <<"A"," ","S","t","u","d","y"," ","o","f"," ","H","e","u","r","i","s","t",
    "i","c"," ","C","l","a","s","s","i","f","i","c","a","t","i","o","n">>

L_label == <<"A","u","t","h","o","r",":"," ","J","a","n","e"," ","D","o","e">>

L_name == <<"J","a","n","e"," ","D","o","e">>

L_org ==
  <<"E","x","a","m","p","l","e"," ","U","n","i","v","e","r","s","i","t","y",
    ","," ","D","e","p","t","."," ","o","f"," ","C","o","m","p","u","t","i",
    "n","g">>

\* an invoice keyword and an amount, no date
L_invoice == <<"J_sei","J_kyuu","J_sho"," ","S_yen","2","5",",","0","0","0">>

L_date == <<"2","0","2","4","-","0","5","-","1","0">>

L_blank == <<" ">>

\* a name line of five kanji that reads "author unknown"
L_unnamed == <<"J_cho2","J_sha","J_mei2","J_fu","J_mei">>

Lexicon ==
  {L_title, L_label, L_name, L_org, L_invoice, L_date, L_blank, L_unnamed}

\* the most lines of an analysed text
MaxLines == 3

AnalyzeTexts == {join(<<"\n">>, ls) : ls \in SeqsUpTo(Lexicon, MaxLines)}

N_notes == <<"n","o","t","e","s",".","p","d","f">>

\* a base name of 35 characters
N_long == Rep("x", 35) \o <<".","d","o","c","x">>

AnalyzeNames == {N_notes, N_long}

\* the most files of a batch
MaxBatch == 2

File(name, units, error) == [name |-> name, units |-> units, error |-> error]

FileSet ==
  { File(N_notes, <<L_title>>, NoneStr),
    File(<<"N","O","T","E","S",".","P","D","F">>, <<L_label>>, NoneStr),
    File(<<"s","c","a","n",".","p","d","f">>, <<>>, NoneStr),
    File(<<"s","c","a","n",".","p","d","f">>, <<L_blank, L_blank>>, NoneStr),
    File(<<"b","a","d",".","p","d","f">>, <<>>, <<"E","O","F">>),
    File(<<"e","m","p","t","y",".","d","o","c","x">>, <<L_blank>>, NoneStr),
    File(<<"p","a","p","e","r",".","d","o","c","x">>,
         <<L_title, L_name, L_org>>, NoneStr),
    File(<<"_","d","r","a","f","t",".","d","o","c","x">>, <<L_label>>, NoneStr),
    File(N_long, <<L_title>>, NoneStr),
    File(<<"b","o","o","k",".","x","l","s","x">>, <<>>, NoneStr),
    File(<<"d","e","c","k",".","p","p","t","x">>, <<>>, NoneStr),
    File(<<"d","e","c","k",".","p","p","t","x">>, <<L_blank>>, NoneStr),
    File(<<"e","m","p","t","y",".","c","s","v">>, <<>>, NoneStr),
    File(<<"b","i","l","l",".","c","s","v">>, <<L_invoice>>, NoneStr),
    File(<<"l","o","g",".","c","s","v">>, <<error_marker>>, NoneStr),
    File(<<"m","e","m","o",".","m","p","3">>, <<>>, NoneStr),
    File(<<"K_e","K_ra","K_choon",".","m","p","3">>, <<>>, NoneStr),
    File(<<"p","h","o","t","o",".","p","n","g">>, <<L_title>>, NoneStr),
    File(<<"R","E","A","D","M","E">>, <<L_title>>, NoneStr) }

\* the uploads of one run: the button runs the loop for a non-empty list
Batches == SeqsUpTo(FileSet, MaxBatch) \ {<<>>}

\* the longest author and title handed to apply_rename_rule
MaxAuthorLen == 16

MaxTitleLen == 50

RenameAuthors ==
  {pre \o Rep("a", n) : pre \in {<<>>, <<"_">>}, n \in 0..MaxAuthorLen}

RenameTitles ==
  {Rep("t", n) \o suf : n \in 0..MaxTitleLen, suf \in {<<>>, <<" ">>}}

RenameInvoices ==
  { InvoiceData(d, a, i, s) :
      d \in {date_default, L_date, <<"2","0","2","4","-","5","-","1">>},
      a \in {<<"0">>, <<"S_yen","2","5",",","0","0","0">>},
      i \in {issuer_unknown, Rep("i", 16)},
      s \in {N_notes, Rep("s", 16)} }

\* the responses handed to apply_rename_rule: every category with data of
\* its shape, a category with no data, and a category that is none of the
\* four
RenameResponses ==
  {AICoreResponse(AuthoredDocument, AuthorData(a, ti), <<"author_doc", 10>>,
                  NoneStr) : a \in RenameAuthors, ti \in RenameTitles}
  \cup {AICoreResponse(Invoice, d, <<"invoice", 10, 0>>, NoneStr) :
          d \in RenameInvoices}
  \cup {AICoreResponse(Other, OtherData(ti), <<"other", 0, 0>>, NoneStr) :
          ti \in RenameTitles}
  \cup {AICoreResponse(c, NoneData, <<"empty">>, NoneStr) :
          c \in {Unknown, AuthoredDocument, Invoice, Other, "Bogus"}}

RenameNames ==
  { N_notes, <<"N","O","T","E","S",".","P","D","F">>,
    <<"R","E","A","D","M","E">>, <<"a",".","t","a","r",".","g","z">>,
    <<".","e","n","v">> }

\* the characters and the greatest length of the strings handed to
\* sanitize_filename
SanitizeChars == {"a", "Z", "7", " ", "_", ".", "-", "!", "J_en", "S_yen"}

MaxLen == 3

\* ---------------------------------------------------------------- state

VARIABLES
  pc,              \* where the run is
  uploaded_files,  \* the uploads of the run
  i,               \* the number of files the loop has handled
  results,         \* the result rows, one dict each
  original_name,   \* uploaded_file.name of the file at hand
  text_content,    \* the text analysed
  is_asr,          \* the audio flag of extract_text
  ai_response,     \* the response of analyze_file_content
  analysis,        \* the locals of analyze_file_content
  new_filename,    \* the value of apply_rename_rule
  rename,          \* the locals of apply_rename_rule
  name_in,         \* the argument of sanitize_filename
  safe_name,       \* sanitize_filename(name_in)
  safe_twice       \* sanitize_filename(safe_name)

vars ==
  <<pc, uploaded_files, i, results, original_name, text_content, is_asr,
    ai_response, analysis, new_filename, rename, name_in, safe_name,
    safe_twice>>

\* a local that is not bound yet
Unbound == AICoreResponse("unbound", NoneData, <<>>, NoneStr)

NoAnalysis ==
  [score_invoice |-> 0, score_author_doc |-> 0, best_title_candidate |-> <<>>,
   detected_author |-> NoneStr]

NoRename ==
  [branch |-> "none", authors_short |-> <<>>, title_short |-> <<>>,
   new_name_raw |-> <<>>]

\* ---------------------------------------------------------------- the run

\* the result row of a file that is skipped
skipped_row(name) ==
  [original |-> name, status |-> "skipped/error", category |-> "-",
   renamed |-> name]

\* the result row of a file that was classified
result_row(name, response, renamed) ==
  [original |-> name,
   status |-> IF response.category # Unknown THEN "done" ELSE "failed",
   category |-> response.category, renamed |-> renamed]

\* the orchestrator: the button is pressed with a non-empty list of uploads
Init ==
  /\ pc = "loop"
  /\ uploaded_files \in Batches
  /\ i = 0
  /\ results = <<>>
  /\ original_name = <<>>
  /\ text_content = <<>>
  /\ is_asr = FALSE
  /\ ai_response = Unbound
  /\ analysis = NoAnalysis
  /\ new_filename = <<>>
  /\ rename = NoRename
  /\ name_in = <<>>
  /\ safe_name = <<>>
  /\ safe_twice = <<>>

\* the test for a failure message that looks for the error marker only
is_failure_error_only(text) == Contains(text, error_marker)

\* whether the orchestrator takes the text for a failure message
is_failure(text) ==
  ContainsAny(text, {not_supported, error_marker})

\* the failure branch leaving the loop (break for continue)
SkipFile_break(uploaded_file) ==
  /\ results' = Append(results, skipped_row(uploaded_file.name))
  /\ pc' = "done"
  /\ UNCHANGED <<ai_response, analysis, new_filename, rename>>

\* the failure branch of the loop body: the row of a skipped file, then
\* continue
SkipFile(uploaded_file) ==
  /\ results' = Append(results, skipped_row(uploaded_file.name))
  /\ pc' = "loop"
  /\ UNCHANGED <<ai_response, analysis, new_filename, rename>>

\* the rest of the loop body: classification, renaming and the result row
ClassifyFile(uploaded_file, extracted) ==
  /\ \E a \in {analyze_file_content(extracted[1], uploaded_file.name,
                                    extracted[2])} :
       \E renamed \in {apply_rename_rule(a.response, uploaded_file.name)} :
         /\ ai_response' = a.response
         /\ analysis' = [k \in DOMAIN NoAnalysis |-> a[k]]
         /\ new_filename' = renamed
         /\ rename' = rename_locals(a.response.category,
                                    model_dump(a.response.extracted_data))
         /\ results' = Append(results,
                              result_row(uploaded_file.name, a.response,
                                         renamed))
  /\ pc' = "loop"

\* one iteration of the loop over uploaded_files
ProcessFile ==
  /\ pc = "loop"
  /\ i < Len(uploaded_files)
  /\ \E uploaded_file \in {uploaded_files[i + 1]} :
       \E extracted \in {extract_text(uploaded_file)} :
         /\ original_name' = uploaded_file.name
         /\ text_content' = extracted[1]
         /\ is_asr' = extracted[2]
         /\ \/ is_failure(extracted[1]) /\ SkipFile(uploaded_file)
            \/ ~is_failure(extracted[1])
               /\ ClassifyFile(uploaded_file, extracted)
  /\ i' = i + 1
  /\ UNCHANGED <<uploaded_files, name_in, safe_name, safe_twice>>

\* the loop is over: the results table is shown
Finish ==
  /\ pc = "loop"
  /\ i = Len(uploaded_files)
  /\ pc' = "done"
  /\ UNCHANGED <<uploaded_files, i, results, original_name, text_content,
                 is_asr, ai_response, analysis, new_filename, rename, name_in,
                 safe_name, safe_twice>>

Next == ProcessFile \/ Finish

Spec == Init /\ [][Next]_vars

\* ------------------------------------------- analyze_file_content on its own

InitAnalyze ==
  /\ pc = "analyze"
  /\ original_name \in AnalyzeNames
  /\ text_content \in AnalyzeTexts
  /\ is_asr \in BOOLEAN
  /\ uploaded_files = <<>>
  /\ i = 0
  /\ results = <<>>
  /\ ai_response = Unbound
  /\ analysis = NoAnalysis
  /\ new_filename = <<>>
  /\ rename = NoRename
  /\ name_in = <<>>
  /\ safe_name = <<>>
  /\ safe_twice = <<>>

Analyze ==
  /\ pc = "analyze"
  /\ \E a \in {analyze_file_content(text_content, original_name, is_asr)} :
       /\ ai_response' = a.response
       /\ analysis' = [k \in DOMAIN NoAnalysis |-> a[k]]
  /\ pc' = "analyzed"
  /\ UNCHANGED <<uploaded_files, i, results, original_name, text_content,
                 is_asr, new_filename, rename, name_in, safe_name, safe_twice>>

SpecAnalyze == InitAnalyze /\ [][Analyze]_vars

\* ---------------------------------------------- apply_rename_rule on its own

InitRename ==
  /\ pc = "rename"
  /\ ai_response \in RenameResponses
  /\ original_name \in RenameNames
  /\ uploaded_files = <<>>
  /\ i = 0
  /\ results = <<>>
  /\ text_content = <<>>
  /\ is_asr = FALSE
  /\ analysis = NoAnalysis
  /\ new_filename = <<>>
  /\ rename = NoRename
  /\ name_in = <<>>
  /\ safe_name = <<>>
  /\ safe_twice = <<>>

Rename ==
  /\ pc = "rename"
  /\ new_filename' = apply_rename_rule(ai_response, original_name)
  /\ rename' = rename_locals(ai_response.category,
                              model_dump(ai_response.extracted_data))
  /\ pc' = "renamed"
  /\ UNCHANGED <<uploaded_files, i, results, original_name, text_content,
                 is_asr, ai_response, analysis, name_in, safe_name, safe_twice>>

SpecRename == InitRename /\ [][Rename]_vars

\* ---------------------------------------------- sanitize_filename on its own

InitSanitize ==
  /\ pc = "sanitize"
  /\ name_in \in SeqsUpTo(SanitizeChars, MaxLen)
  /\ safe_name = <<>>
  /\ safe_twice = <<>>
  /\ uploaded_files = <<>>
  /\ i = 0
  /\ results = <<>>
  /\ original_name = <<>>
  /\ text_content = <<>>
  /\ is_asr = FALSE
  /\ ai_response = Unbound
  /\ analysis = NoAnalysis
  /\ new_filename = <<>>
  /\ rename = NoRename

Sanitize ==
  /\ pc = "sanitize"
  /\ safe_name' = sanitize_filename(name_in)
  /\ safe_twice' = sanitize_filename(sanitize_filename(name_in))
  /\ pc' = "sanitized"
  /\ UNCHANGED <<uploaded_files, i, results, original_name, text_content,
                 is_asr, ai_response, analysis, new_filename, rename, name_in>>

SpecSanitize == InitSanitize /\ [][Sanitize]_vars

\* --------------------------------------------------------------- properties

\* the extensions of the document formats
document_extensions ==
  { <<"p","d","f">>, <<"d","o","c","x">>, <<"x","l","s","x">>,
    <<"p","p","t","x">>, <<"c","s","v">> }

\* whether s has nothing but whitespace
blank(s) == \A p \in 1..Len(s) : s[p] \in Space

\* whether p is an initial piece of s
IsPrefix(p, s) == Len(p) <= Len(s) /\ Prefix(s, Len(p)) = p

\* whether s ends with suf
EndsWith(s, suf) ==
  Len(suf) <= Len(s) /\ From(s, Len(s) - Len(suf) + 1) = suf

\* the loop has handled a file and did not skip it: the locals of the
\* classification are those of uploaded_files[i]
classified == i > 0 /\ results[i].status # "skipped/error"

\* a file the parser of which reads nothing but whitespace without failing
blank_document(f) ==
  /\ file_ext(f.name) \in document_extensions
  /\ f.error = NoneStr
  /\ \A u \in 1..Len(f.units) : blank(f.units[u])

\* a file with an unsupported extension, or a document the parser fails on
failed_file(f) ==
  \/ file_ext(f.name) \notin supported_extensions
  \/ file_ext(f.name) \in document_extensions /\ f.error # NoneStr

\* the base of new_filename: what precedes the extension of original_name
new_base ==
  Prefix(new_filename, Len(new_filename) - Len(splitext(original_name)[2]))

\* C1: every result of analyze_file_content has no extracted data exactly
\* when its category is Unknown, and data of the shape of its category
\* otherwise (AuthorData for an authored document, InvoiceData for an
\* invoice, OtherData for Other).
C1_DataShape ==
  pc = "analyzed" =>
    /\ ai_response.category \in {AuthoredDocument, Invoice, Other, Unknown}
    /\ ai_response.extracted_data.cls = "None"
         <=> ai_response.category = Unknown
    /\ ai_response.category = AuthoredDocument
         => DOMAIN ai_response.extracted_data = {"cls", "author", "title"}
            /\ ai_response.extracted_data.cls = "AuthorData"
    /\ ai_response.category = Invoice
         => DOMAIN ai_response.extracted_data =
              {"cls", "invoice_date", "invoice_amount", "invoice_issuer",
               "invoice_subject"}
            /\ ai_response.extracted_data.cls = "InvoiceData"
    /\ ai_response.category = Other
         => DOMAIN ai_response.extracted_data = {"cls", "title"}
            /\ ai_response.extracted_data.cls = "OtherData"

\* a text with content that matches no pattern was analysed: Other with
\* OtherData
C1_Witness ==
  /\ pc = "analyzed"
  /\ ~is_asr
  /\ ai_response.category = Other
  /\ ai_response.extracted_data.cls = "OtherData"

\* C2: for a text that is not audio the category follows from the two
\* scores and the emptiness of the text alone: an authored document iff the
\* author score is at least 10 and above the invoice score; else an invoice
\* iff the invoice score is at least 10 and not below the author score; else
\* Other iff the text has content; else Unknown.  Equal scores of 10 or more
\* give an invoice.
C2_Decision ==
  pc = "analyzed" /\ ~is_asr =>
    LET a == analysis.score_author_doc
        v == analysis.score_invoice
        c == ai_response.category
    IN /\ c = AuthoredDocument <=> (a >= 10 /\ a > v)
       /\ c = Invoice <=> (~(a >= 10 /\ a > v) /\ v >= 10 /\ v >= a)
       /\ c = Other <=> (a < 10 /\ v < 10 /\ ~blank(text_content))
       /\ c = Unknown <=> (a < 10 /\ v < 10 /\ blank(text_content))
       /\ (a = v /\ a >= 10) => c = Invoice

\* a text with a confirmed author and two invoice signals: 10 against 10
C2_Witness ==
  /\ pc = "analyzed"
  /\ ~is_asr
  /\ analysis.score_author_doc = 10
  /\ analysis.score_invoice = 10
  /\ ai_response.category = Invoice

\* C3: what apply_rename_rule returns ends with the extension
\* os.path.splitext splits off the original name, in the branch of each
\* category and in the branch of an unrecognised category.
C3_KeepsExtension ==
  pc = "renamed" =>
    /\ EndsWith(new_filename, splitext(original_name)[2])
    /\ rename.branch \in {Unknown, "else"} => new_filename = original_name

\* an "other" response was renamed for a name with two dots
C3_Witness ==
  /\ pc = "renamed"
  /\ rename.branch = Other
  /\ original_name = <<"a",".","t","a","r",".","g","z">>
  /\ EndsWith(new_filename, <<".","g","z">>)

\* C4: in the authored-document branch the author is cut to at most 15
\* characters, the title to max(0, 49 - len(author)) characters, and author,
\* separator and title together have at most 50 characters before the
\* sanitization.
C4_LengthBudget ==
  pc = "renamed" /\ rename.branch = AuthoredDocument
                 /\ ai_response.extracted_data.cls = "AuthorData" =>
    LET author == ai_response.extracted_data.author
        title  == ai_response.extracted_data.title
    IN /\ Len(rename.authors_short) = Least({Len(author), 15})
       /\ IsPrefix(rename.authors_short, author)
       /\ Len(rename.title_short)
            = Least({Len(title), Max(0, 49 - Len(rename.authors_short))})
       /\ IsPrefix(rename.title_short, title)
       /\ Len(rename.authors_short) + 1 + Len(rename.title_short) <= 50

\* an author of more than 15 characters and a title that fills the budget
C4_Witness ==
  /\ pc = "renamed"
  /\ rename.branch = AuthoredDocument
  /\ ai_response.extracted_data.cls = "AuthorData"
  /\ Len(ai_response.extracted_data.author) > 15
  /\ Len(rename.authors_short) = 15
  /\ Len(rename.title_short) = 34

\* C5: the base of the new name of a file classified as authored document,
\* invoice or Other neither begins nor ends with an underscore.
C5_NoEdgeUnderscore ==
  classified /\ ai_response.category \in {AuthoredDocument, Invoice, Other}
    => \/ new_base = <<>>
       \/ Head(new_base) # "_" /\ new_base[Len(new_base)] # "_"

\* C6 as stated: a document whose parser reads nothing but whitespace is
\* classified Unknown without data and keeps its name.
C6_BlankDocumentUnknown ==
  i > 0 /\ blank_document(uploaded_files[i]) =>
    /\ results[i].category = Unknown
    /\ ai_response.extracted_data.cls = "None"
    /\ results[i].renamed = uploaded_files[i].name

\* C6, amended: a document for which extract_text returns nothing but
\* whitespace is classified Unknown without data and keeps its name; a PDF
\* whose pages have nothing but whitespace is analysed as the mock OCR text
\* and classified as an invoice.
C6_BlankTextUnknown ==
  i > 0 /\ file_ext(uploaded_files[i].name) \in document_extensions
        /\ uploaded_files[i].error = NoneStr =>
    /\ blank(text_content) =>
         /\ results[i].status = "failed"
         /\ results[i].category = Unknown
         /\ ai_response.category = Unknown
         /\ ai_response.extracted_data.cls = "None"
         /\ new_filename = uploaded_files[i].name
         /\ results[i].renamed = uploaded_files[i].name
    /\ ( /\ file_ext(uploaded_files[i].name) = <<"p","d","f">>
         /\ blank_document(uploaded_files[i]) ) =>
         /\ text_content = mock_ocr_text
         /\ results[i].category = Invoice
         /\ results[i].renamed # uploaded_files[i].name

\* a DOCX with one paragraph of a space was handled
C6_Witness ==
  /\ i > 0
  /\ file_ext(uploaded_files[i].name) = <<"d","o","c","x">>
  /\ text_content # <<>>
  /\ blank(text_content)
  /\ results[i].category = Unknown
  /\ results[i].renamed = uploaded_files[i].name

C8_Idempotent ==
  pc = "sanitized" =>
    /\ safe_twice = safe_name
    /\ \A p \in 1..Len(safe_name) :
         safe_name[p] \in Alnum \cup {".", "_", "-"}

\* a string with a space and a character that is dropped was sanitized
C8_Witness ==
  /\ pc = "sanitized"
  /\ name_in = <<"a", " ", "!">>
  /\ safe_name = <<"a", "_">>

\* C9 as stated: the title of an Other result is the base name cut to 30
\* characters.
C9_TitleCutTo30 ==
  classified /\ ai_response.category = Other =>
    /\ IsPrefix(ai_response.extracted_data.title, splitext(original_name)[1])
    /\ Len(ai_response.extracted_data.title) <= 30

\* C9, amended: the title of an Other result is the whole base name;
\* apply_rename_rule cuts it to 30 characters before it sanitizes it.
C9_TitleIsBaseName ==
  classified /\ ai_response.category = Other =>
    /\ ai_response.extracted_data.title = splitext(original_name)[1]
    /\ rename.new_name_raw = Prefix(splitext(original_name)[1], 30)
    /\ Len(new_base) <= 30

\* a file with a base name of 35 characters was classified Other
C9_Witness ==
  /\ classified
  /\ ai_response.category = Other
  /\ Len(ai_response.extracted_data.title) = 35
  /\ Len(rename.new_name_raw) = 30

\* C10: for audio analyze_file_content scores nothing and returns an
\* invoice (or Unknown), never Other or an authored document, with the
\* transcript set; for every other input the transcript is None.
C10_AudioTranscript ==
  pc = "analyzed" =>
    /\ is_asr => /\ ai_response.category \in {Invoice, Unknown}
                 /\ ai_response.transcript # NoneStr
                 /\ ai_response.transcript # <<>>
                 /\ analysis.score_invoice = 0
                 /\ analysis.score_author_doc = 0
    /\ ~is_asr => ai_response.transcript = NoneStr

\* audio was analysed with a text that has a confirmed author
C10_Witness ==
  /\ pc = "analyzed"
  /\ is_asr
  /\ text_content = join(<<"\n">>, <<L_title, L_name, L_org>>)
  /\ ai_response.category = Invoice
  /\ ai_response.transcript = mock_transcript

\* a line of the form "Author: <Name>"
labelled_author(line) ==
  /\ IsPrefix(<<"A","u","t","h","o","r",":"," ">>, line)
  /\ name_re_en(From(line, 9))

\* the header of a text that was analysed: a title line of more than 15
\* characters first, an organisation line third, and no invoice signal
titled_header(ls) ==
  /\ Len(ls) >= 3
  /\ Len(ls[1]) > 15
  /\ org_keywords_re(ls[3])
  /\ analysis.score_invoice = 0

score_ranges ==
  /\ analysis.score_invoice \in {0, 5, 10, 15}
  /\ analysis.score_author_doc \in {0, 5, 10}
  /\ analysis.score_author_doc = 10 => analysis.detected_author # NoneStr
  /\ ai_response.category = AuthoredDocument
       => analysis.detected_author # NoneStr /\ analysis.score_invoice <= 5
  /\ analysis.score_invoice >= 10 => ai_response.category = Invoice

\* C12 as stated: the invoice score is 0, 5, 10 or 15 and the author score
\* 0, 5 or 10, and 10 only with a confirmed author; an authored document is
\* returned only with a confirmed author and an invoice score of at most 5;
\* an invoice score of 10 or more gives an invoice; the author of an
\* authored document is never the text of the "author unknown" placeholder.
C12_NeverPlaceholder ==
  pc = "analyzed" /\ ~is_asr =>
    /\ score_ranges
    /\ ai_response.category = AuthoredDocument
         => ai_response.extracted_data.author # author_unknown

\* C12, amended: the same of the scores and the category; the author of an
\* authored document is always the detected author, a line of the text
\* without its whitespace, never the fallback; it reads as the placeholder
\* only when the confirmed author line itself has that text.
C12_ScoresAndAuthor ==
  pc = "analyzed" /\ ~is_asr =>
    /\ score_ranges
    /\ ai_response.category = AuthoredDocument =>
         /\ ai_response.extracted_data.author = analysis.detected_author
         /\ ai_response.extracted_data.author # <<>>
         /\ \E k \in 1..Len(text_lines(text_content)) :
              ai_response.extracted_data.author
                = Filter(text_lines(text_content)[k],
                         Range(text_lines(text_content)[k]) \ Space)

\* a text with an author keyword and a confirmed author was analysed: the
\* author score is 10
C12_Witness ==
  /\ pc = "analyzed"
  /\ ~is_asr
  /\ ContainsAny(lower(text_content), author_doc_keywords)
  /\ analysis.detected_author # NoneStr
  /\ analysis.score_author_doc = 10
  /\ analysis.score_invoice = 5
  /\ ai_response.category = AuthoredDocument

\* the text has one of the two markers somewhere
has_marker(text) ==
  Contains(text, not_supported) \/ Contains(text, error_marker)

\* C13: every iteration of the loop skips the file (a row with the status
\* skipped/error, no category and the original name, and the locals of
\* analyze_file_content and apply_rename_rule untouched) exactly when the
\* text extract_text returned has "not supported" or "error" somewhere, and
\* classifies and renames it otherwise; whether the extraction failed plays
\* no part.
C13_SkipOnMarker ==
  [][ i' = i + 1 =>
        /\ Len(results') = i'
        /\ results'[i'].original = original_name'
        /\ has_marker(text_content') <=> results'[i'].status = "skipped/error"
        /\ has_marker(text_content') =>
             /\ results'[i'].category = "-"
             /\ results'[i'].renamed = original_name'
             /\ UNCHANGED <<ai_response, analysis, new_filename, rename>>
        /\ ~has_marker(text_content') =>
             /\ results'[i'].status \in {"done", "failed"}
             /\ results'[i'].category = ai_response'.category
             /\ results'[i'].renamed = new_filename'
             /\ rename'.branch # "none" ]_vars

\* a CSV that was read without failure and has the error marker in a field
\* was skipped, and after it an audio file with the marker in its name
C13_Witness ==
  /\ i = 2
  /\ uploaded_files[1].name = <<"l","o","g",".","c","s","v">>
  /\ uploaded_files[1].error = NoneStr
  /\ results[1].status = "skipped/error"
  /\ is_asr
  /\ text_content = original_name
  /\ Contains(original_name, error_marker)
  /\ results[2].status = "skipped/error"
  /\ ai_response = Unbound

====
